---- MODULE Spec2Model ----
(***************************************************************************)
(* Model of chatlocal.vectorstore.VectorStore: the manager that chunks a   *)
(* datastore, embeds the chunks batch-wise into a FAISS store, and saves / *)
(* loads that store as two files (an index file and a pickle file).        *)
(*                                                                         *)
(* Every public method is one action.  An exception raised by a method is  *)
(* recorded in last.exc; the fields of `last` describe the call that was   *)
(* made most recently.  Optional values (an attribute that is not set, a   *)
(* Python None, a file that does not exist) are sequences of length 0 or 1.*)
(***************************************************************************)
EXTENDS Integers, Sequences, FiniteSets, TLC

\* ---------------------------------------------------------------- bounds
MaxCalls == 4      \* operations performed in one run
MaxFiles == 2      \* files in one folder
MaxLoads == 1      \* load_files calls on one DataLoader
MaxProcs == 4      \* processes that construct VectorStoreSettings

\* ------------------------------------------------------ program constants
stepsize == 100

\* ------------------------------------------------------- optional values
None == <<>>
Some(x) == <<x>>
Get(o) == o[1]

Min(a, b) == IF a < b THEN a ELSE b

\* Python's s[i:j] on a list (0-based, j clipped to the length).
Slice(s, i, j) == SubSeq(s, i + 1, Min(j, Len(s)))

\* ------------------------------------------------------------ the inputs
\* A text is known by its id and by the number of pieces the splitter cuts
\* it into; piece k of the text with id t is the number 1000 * t + k.
short == [text |-> [id |-> 1, pieces |-> 1], source |-> "a.md"]
medium == [text |-> [id |-> 2, pieces |-> 100], source |-> "b.md"]
long == [text |-> [id |-> 3, pieces |-> 150], source |-> "a.md"]

\* Datastores of 0, 1, 100, 101 and 250 chunks: none, less than one batch,
\* exactly one batch, one more than a batch, and three batches.
Datastores ==
    { <<>>, <<short>>, <<medium>>, <<medium, short>>, <<medium, long>> }

\* -------------------------------------------------- external collaborators
\* CharacterTextSplitter.split_text: the pieces of a text, in text order.
split_text(text) == [k \in 1..text.pieces |-> 1000 * text.id + k]

\* Embeddings.embed_documents: one vector per text, in the order given.
\* The vector of a text is modelled as the negated text.
embed_documents(texts) == [i \in 1..Len(texts) |-> 0 - texts[i]]

\* faiss.write_index / faiss.read_index: the file holds the vector count and
\* the vectors; reading takes the first ntotal vectors back.
write_index(index) == [ntotal |-> Len(index), xb |-> index]
read_index(file) == SubSeq(file.xb, 1, file.ntotal)

\* pickle.dump / pickle.load of the FAISS wrapper object.
pickle_dump(obj) == [cls |-> "FAISS", state |-> obj]
pickle_load(file) == file.state

\* FAISS.from_texts: embeds the texts and builds index, texts and metadatas
\* together; with no texts it raises (embeddings[0] of an empty list).
from_texts(texts, metadatas) ==
    IF texts = <<>>
    THEN [exc |-> "IndexError", store |-> None]
    ELSE [exc |-> "none",
          store |-> Some([index |-> Some(embed_documents(texts)),
                          docs |-> texts,
                          metadatas |-> metadatas])]

\* add_texts with the metadatas left out of the insertion.
add_texts_without_metadatas(st, texts, metadatas) ==
    IF st.index = None
    THEN [exc |-> "AttributeError", store |-> st]
    ELSE [exc |-> "none",
          store |-> [index |-> Some(Get(st.index) \o embed_documents(texts)),
                     docs |-> st.docs \o texts,
                     metadatas |-> st.metadatas]]

\* add_texts with the new rows put in front of the existing ones.
add_texts_in_front(st, texts, metadatas) ==
    IF st.index = None
    THEN [exc |-> "AttributeError", store |-> st]
    ELSE [exc |-> "none",
          store |-> [index |-> Some(embed_documents(texts) \o Get(st.index)),
                     docs |-> texts \o st.docs,
                     metadatas |-> metadatas \o st.metadatas]]

\* FAISS.add_texts: embeds, adds the vectors to the index (which raises when
\* the index attribute is None), then adds the texts and their metadatas.
add_texts(st, texts, metadatas) ==
    IF st.index = None
    THEN [exc |-> "AttributeError", store |-> st]
    ELSE [exc |-> "none",
          store |-> [index |-> Some(Get(st.index) \o embed_documents(texts)),
                     docs |-> st.docs \o texts,
                     metadatas |-> st.metadatas \o metadatas]]

\* ------------------------------------------------------------- the state
VARIABLES
    modeltype,     \* self.modeltype
    initialized,   \* self.initialized
    store,         \* self.store: None until from_texts or load binds it
    indexFile,     \* the file at self.index_path, None when it does not exist
    storeFile,     \* the file at self.store_path, None when it does not exist
    saved,         \* history: self.store as it was when save last succeeded
    last,          \* history: the most recent call and how it ended
    ncalls         \* history: number of operations so far

\* The loader in front of the manager (DataLoader, then chunk_datastore).
VARIABLES
    filetypes,     \* DataLoader.filetypes
    data,          \* DataLoader.datastore.data
    chunks,        \* the Chunk chunk_datastore returned, with its input
    lastLoad,      \* history: the most recent load_files call
    nloads         \* history: number of load_files calls so far

pvars == <<filetypes, data, chunks, lastLoad, nloads>>

\* The cache directory and the processes that construct VectorStoreSettings.
VARIABLES
    parentDir,     \* whether the parent of the cache directory exists
    cacheDir,      \* whether the cache directory exists
    pc             \* where each process is in check_folder

svars == <<parentDir, cacheDir, pc>>

vars == <<modeltype, initialized, store, indexFile, storeFile, saved, last,
          ncalls, pvars, svars>>


Procs == 1..MaxProcs

NoLoad == [path |-> [kind |-> "none", files |-> <<>>], exc |-> "none",
           before |-> 0]

\* The values the variables of a component keep while another one runs.
PipelineIdle ==
    /\ filetypes = {}
    /\ data = <<>>
    /\ chunks = None
    /\ lastLoad = NoLoad
    /\ nloads = 0

SettingsIdle ==
    /\ parentDir = TRUE
    /\ cacheDir = TRUE
    /\ pc = [p \in Procs |-> "done"]

\* ------------------------------------------------------ VectorStore helpers
\* The members of ModelType, and the values self.modeltype can hold: the
\* attribute is copied from the settings object and is not checked again.
ModelType == {"openai", "huggingface"}
ModelTypeValues == ModelType \cup {"unsupported"}

\* get_embeddings: the exception it raises, "none" when it returns an
\* embedding object.
get_embeddings ==
    IF modeltype = "huggingface" THEN "none"
    ELSE IF modeltype = "openai" THEN "none"
    ELSE "ValueError"

\* chunk_datastore that puts the metadata of each document in front of the
\* metadata collected so far, while the chunks are appended.
RECURSIVE chunk_datastore_prepending_metadata(_)
chunk_datastore_prepending_metadata(datastore) ==
    IF datastore = <<>>
    THEN [docs |-> <<>>, metadatas |-> <<>>]
    ELSE LET doc == Head(datastore)
             splits == split_text(doc.text)
             rest == chunk_datastore_prepending_metadata(Tail(datastore))
         IN [docs |-> splits \o rest.docs,
             metadatas |-> rest.metadatas
                           \o [i \in 1..Len(splits) |-> [source |-> doc.source]]]

RECURSIVE chunk_datastore(_)
chunk_datastore(datastore) ==
    IF datastore = <<>>
    THEN [docs |-> <<>>, metadatas |-> <<>>]
    ELSE LET doc == Head(datastore)
             splits == split_text(doc.text)
             rest == chunk_datastore(Tail(datastore))
         IN [docs |-> splits \o rest.docs,
             metadatas |-> [i \in 1..Len(splits) |-> [source |-> doc.source]]
                           \o rest.metadatas]

\* init_store with the first batch one chunk short (docs[: stepsize - 1]).
init_store_short_batch(init, st, chunked, fail) ==
    IF init
    THEN [exc |-> "none", store |-> st, initialized |-> TRUE, inits |-> 0]
    ELSE IF get_embeddings # "none"
    THEN [exc |-> get_embeddings, store |-> st, initialized |-> init,
          inits |-> 0]
    ELSE IF fail = 1 /\ chunked.docs # <<>>
    THEN [exc |-> "ProviderError", store |-> st, initialized |-> init,
          inits |-> 0]
    ELSE LET r == from_texts(Slice(chunked.docs, 0, stepsize - 1),
                             Slice(chunked.metadatas, 0, stepsize - 1))
         IN IF r.exc # "none"
            THEN [exc |-> r.exc, store |-> st, initialized |-> init,
                  inits |-> 0]
            ELSE [exc |-> "none", store |-> r.store, initialized |-> TRUE,
                  inits |-> 1]

\* init_store.  fail = 1 means the embedding call of from_texts fails; inits
\* counts the indexes from_texts has built.
init_store(init, st, chunked, fail) ==
    IF init
    THEN [exc |-> "none", store |-> st, initialized |-> TRUE, inits |-> 0]
    ELSE IF get_embeddings # "none"
    THEN [exc |-> get_embeddings, store |-> st, initialized |-> init,
          inits |-> 0]
    ELSE IF fail = 1 /\ chunked.docs # <<>>
    THEN [exc |-> "ProviderError", store |-> st, initialized |-> init,
          inits |-> 0]
    ELSE LET r == from_texts(Slice(chunked.docs, 0, stepsize),
                             Slice(chunked.metadatas, 0, stepsize))
         IN IF r.exc # "none"
            THEN [exc |-> r.exc, store |-> st, initialized |-> init,
                  inits |-> 0]
            ELSE [exc |-> "none", store |-> r.store, initialized |-> TRUE,
                  inits |-> 1]

\* The loop of add_chunks from position i on; `call` is the number of the
\* next embedding call within the public operation, `fail` the call that the
\* provider fails (0: none).
RECURSIVE add_loop(_, _, _, _, _)
add_loop(st, chunked, i, call, fail) ==
    IF i >= Len(chunked.docs)
    THEN [exc |-> "none", store |-> st]
    ELSE IF call = fail
    THEN [exc |-> "ProviderError", store |-> st]
    ELSE LET r == add_texts(st, Slice(chunked.docs, i, i + stepsize),
                            Slice(chunked.metadatas, i, i + stepsize))
         IN IF r.exc # "none"
            THEN r
            ELSE add_loop(r.store, chunked, i + stepsize, call + 1, fail)

\* add_chunks that always starts at stepsize, as create_store calls it.
add_chunks_from_stepsize(st, chunked, start, call, fail) ==
    IF get_embeddings # "none"
    THEN [exc |-> get_embeddings, store |-> st]
    ELSE LET r == add_loop(Get(st), chunked, stepsize, call, fail)
         IN [exc |-> r.exc, store |-> Some(r.store)]

add_chunks(st, chunked, start, call, fail) ==
    IF get_embeddings # "none"
    THEN [exc |-> get_embeddings, store |-> st]
    ELSE LET r == add_loop(Get(st), chunked, start, call, fail)
         IN [exc |-> r.exc, store |-> Some(r.store)]

\* Number of batches range(start, n, stepsize) runs through.
NBatches(start, n) ==
    IF n <= start THEN 0 ELSE (n - start + stepsize - 1) \div stepsize

\* ----------------------------------------------------------- history
Rows(st) == IF st = None THEN 0 ELSE Len(Get(st).docs)

NoDatastore == <<>>

\* op, ds, fail: the call and its inputs.  exc: the exception it raised, or
\* "none".  committed: the count of committed chunks the exception carries,
\* None when it carries none.  wasInit: self.initialized before the call.
\* rows0: rows in the store when the call started to insert.  retry, base:
\* whether the call re-submits an aborted call, and the rows in the store
\* before the first attempt.  chunked: whether the call ran chunk_datastore.
\* inits: the indexes from_texts built during the call.
Call(op, ds, fail, exc, committed, wasInit, rows0, base, retry, chunked, inits) ==
    [op |-> op, ds |-> ds, fail |-> fail, exc |-> exc, committed |-> committed,
     wasInit |-> wasInit, rows0 |-> rows0, base |-> base, retry |-> retry,
     chunked |-> chunked, inits |-> inits]

\* A call is a retry when the call before it was the same operation on the
\* same documents and was aborted by the provider.
IsRetry(op, ds) == last.exc = "ProviderError" /\ last.op = op /\ last.ds = ds

Init ==
    /\ modeltype \in ModelTypeValues
    /\ initialized = FALSE
    /\ store = None
    /\ indexFile = None
    /\ storeFile = None
    /\ saved = None
    /\ last = Call("new", NoDatastore, 0, "none", None, FALSE, 0, 0, FALSE,
                 FALSE, 0)
    /\ ncalls = 0
    /\ PipelineIdle
    /\ SettingsIdle

\* load that does not put the index back on the unpickled object.
load_without_index(init, st, ifile, sfile) ==
    IF ifile = None
    THEN [exc |-> "RuntimeError", store |-> st, initialized |-> init]
    ELSE IF sfile = None
    THEN [exc |-> "FileNotFoundError", store |-> st, initialized |-> init]
    ELSE [exc |-> "none",
          store |-> Some(pickle_load(Get(sfile))),
          initialized |-> TRUE]

\* load that marks the manager initialized before it reads the files.
load_marking_first(init, st, ifile, sfile) ==
    IF ifile = None
    THEN [exc |-> "RuntimeError", store |-> st, initialized |-> TRUE]
    ELSE IF sfile = None
    THEN [exc |-> "FileNotFoundError", store |-> st, initialized |-> TRUE]
    ELSE [exc |-> "none",
          store |-> Some([pickle_load(Get(sfile))
                          EXCEPT !.index = Some(read_index(Get(ifile)))]),
          initialized |-> TRUE]

\* load that falls back to an empty store when the index file is missing.
load_binding_empty(init, st, ifile, sfile) ==
    IF ifile = None
    THEN [exc |-> "none",
          store |-> Some([index |-> Some(<<>>), docs |-> <<>>,
                          metadatas |-> <<>>]),
          initialized |-> TRUE]
    ELSE IF sfile = None
    THEN [exc |-> "FileNotFoundError", store |-> st, initialized |-> init]
    ELSE [exc |-> "none",
          store |-> Some([pickle_load(Get(sfile))
                          EXCEPT !.index = Some(read_index(Get(ifile)))]),
          initialized |-> TRUE]

\* load.  The missing-file branch only logs; the reads below it raise.
load(init, st, ifile, sfile) ==
    IF ifile = None
    THEN [exc |-> "RuntimeError", store |-> st, initialized |-> init]
    ELSE IF sfile = None
    THEN [exc |-> "FileNotFoundError", store |-> st, initialized |-> init]
    ELSE [exc |-> "none",
          store |-> Some([pickle_load(Get(sfile))
                          EXCEPT !.index = Some(read_index(Get(ifile)))]),
          initialized |-> TRUE]

\* save that returns quietly when no store is bound.
save_returning_quietly(st, ifile, sfile) ==
    IF st = None
    THEN [exc |-> "none", store |-> st,
          indexFile |-> ifile, storeFile |-> sfile]
    ELSE IF Get(st).index = None
    THEN [exc |-> "TypeError", store |-> st,
          indexFile |-> ifile, storeFile |-> sfile]
    ELSE LET stripped == [Get(st) EXCEPT !.index = None]
         IN [exc |-> "none", store |-> Some(stripped),
             indexFile |-> Some(write_index(Get(Get(st).index))),
             storeFile |-> Some(pickle_dump(stripped))]

\* save.  self.store is no attribute before create_store or load; write_index
\* rejects None.  Otherwise the index goes to the index file, the index
\* attribute is set to None and the object is pickled to the store file.
save(st, ifile, sfile) ==
    IF st = None
    THEN [exc |-> "AttributeError", store |-> st,
          indexFile |-> ifile, storeFile |-> sfile]
    ELSE IF Get(st).index = None
    THEN [exc |-> "TypeError", store |-> st,
          indexFile |-> ifile, storeFile |-> sfile]
    ELSE LET stripped == [Get(st) EXCEPT !.index = None]
         IN [exc |-> "none", store |-> Some(stripped),
             indexFile |-> Some(write_index(Get(Get(st).index))),
             storeFile |-> Some(pickle_dump(stripped))]

\* ------------------------------------------------------------ the actions
VectorStore_new ==
    /\ ncalls < MaxCalls
    /\ modeltype' \in ModelTypeValues
    /\ initialized' = FALSE
    /\ store' = None
    /\ last' = Call("new", NoDatastore, 0, "none", None, initialized, 0, 0, FALSE,
                 FALSE, 0)
    /\ ncalls' = ncalls + 1
    /\ UNCHANGED <<indexFile, storeFile, saved>>
    /\ UNCHANGED <<pvars, svars>>

create_store ==
    /\ ncalls < MaxCalls
    /\ \E ds \in Datastores :
         LET chunked == chunk_datastore(ds)
             n == Len(chunked.docs)
             calls == IF get_embeddings # "none" THEN 0
                      ELSE IF initialized THEN NBatches(stepsize, n)
                      ELSE NBatches(0, n)
         IN \E fail \in 0..calls :
              LET r1 == init_store(initialized, store, chunked, fail)
                  r2 == IF r1.exc = "none"
                        THEN add_chunks(r1.store, chunked, stepsize,
                                        IF initialized THEN 1 ELSE 2, fail)
                        ELSE [exc |-> r1.exc, store |-> r1.store]
              IN /\ store' = r2.store
                 /\ initialized' = r1.initialized
                 /\ last' = Call("create", ds, fail, r2.exc, None, initialized,
                                 Rows(store),
                                 IF IsRetry("create", ds) THEN last.base
                                                          ELSE Rows(store),
                                 IsRetry("create", ds), TRUE, r1.inits)
    /\ ncalls' = ncalls + 1
    /\ UNCHANGED <<modeltype, indexFile, storeFile, saved>>
    /\ UNCHANGED <<pvars, svars>>

\* extend_store that saves the store once the chunks are added.
extend_store_autosaving ==
    /\ ncalls < MaxCalls
    /\ \E ds \in Datastores :
         LET l == IF initialized
                  THEN [exc |-> "none", store |-> store, initialized |-> TRUE]
                  ELSE load(initialized, store, indexFile, storeFile)
             chunked == chunk_datastore(ds)
             calls == IF l.exc = "none" /\ get_embeddings = "none"
                      THEN NBatches(0, Len(chunked.docs))
                      ELSE 0
         IN \E fail \in 0..calls :
              LET r == IF l.exc = "none"
                       THEN add_chunks(l.store, chunked, 0, 1, fail)
                       ELSE [exc |-> l.exc, store |-> l.store]
                  w == IF r.exc = "none"
                       THEN save(r.store, indexFile, storeFile)
                       ELSE [exc |-> r.exc, store |-> r.store,
                             indexFile |-> indexFile, storeFile |-> storeFile]
              IN /\ store' = w.store
                 /\ indexFile' = w.indexFile
                 /\ storeFile' = w.storeFile
                 /\ initialized' = l.initialized
                 /\ last' = Call("extend", ds, fail, w.exc, None, initialized,
                                 Rows(l.store),
                                 IF IsRetry("extend", ds) THEN last.base
                                                          ELSE Rows(l.store),
                                 IsRetry("extend", ds), l.exc = "none", 0)
    /\ ncalls' = ncalls + 1
    /\ UNCHANGED <<modeltype, saved>>
    /\ UNCHANGED <<pvars, svars>>

extend_store ==
    /\ ncalls < MaxCalls
    /\ \E ds \in Datastores :
         LET l == IF initialized
                  THEN [exc |-> "none", store |-> store, initialized |-> TRUE]
                  ELSE load(initialized, store, indexFile, storeFile)
             chunked == chunk_datastore(ds)
             calls == IF l.exc = "none" /\ get_embeddings = "none"
                      THEN NBatches(0, Len(chunked.docs))
                      ELSE 0
         IN \E fail \in 0..calls :
              LET r == IF l.exc = "none"
                       THEN add_chunks(l.store, chunked, 0, 1, fail)
                       ELSE [exc |-> l.exc, store |-> l.store]
              IN /\ store' = r.store
                 /\ initialized' = l.initialized
                 /\ last' = Call("extend", ds, fail, r.exc, None, initialized,
                                 Rows(l.store),
                                 IF IsRetry("extend", ds) THEN last.base
                                                          ELSE Rows(l.store),
                                 IsRetry("extend", ds), l.exc = "none", 0)
    /\ ncalls' = ncalls + 1
    /\ UNCHANGED <<modeltype, indexFile, storeFile, saved>>
    /\ UNCHANGED <<pvars, svars>>

Save ==
    /\ ncalls < MaxCalls
    /\ LET r == save(store, indexFile, storeFile)
       IN /\ store' = r.store
          /\ indexFile' = r.indexFile
          /\ storeFile' = r.storeFile
          /\ saved' = IF r.exc = "none" THEN store ELSE saved
          /\ last' = Call("save", NoDatastore, 0, r.exc, None, initialized,
                          Rows(store), 0, FALSE, FALSE, 0)
    /\ ncalls' = ncalls + 1
    /\ UNCHANGED <<modeltype, initialized>>
    /\ UNCHANGED <<pvars, svars>>

Load ==
    /\ ncalls < MaxCalls
    /\ LET r == load(initialized, store, indexFile, storeFile)
       IN /\ store' = r.store
          /\ initialized' = r.initialized
          /\ last' = Call("load", NoDatastore, 0, r.exc, None, initialized,
                          Rows(store), 0, FALSE, FALSE, 0)
    /\ ncalls' = ncalls + 1
    /\ UNCHANGED <<modeltype, indexFile, storeFile, saved>>
    /\ UNCHANGED <<pvars, svars>>

\* The cache directory is shared with the user and with other programs: a
\* file that load expects may have been removed.
RemoveIndexFile ==
    /\ ncalls < MaxCalls
    /\ indexFile # None
    /\ indexFile' = None
    /\ last' = Call("rm_index", NoDatastore, 0, "none", None, initialized, 0, 0, FALSE,
                 FALSE, 0)
    /\ ncalls' = ncalls + 1
    /\ UNCHANGED <<modeltype, initialized, store, storeFile, saved>>
    /\ UNCHANGED <<pvars, svars>>

RemoveStoreFile ==
    /\ ncalls < MaxCalls
    /\ storeFile # None
    /\ storeFile' = None
    /\ last' = Call("rm_store", NoDatastore, 0, "none", None, initialized, 0, 0, FALSE,
                 FALSE, 0)
    /\ ncalls' = ncalls + 1
    /\ UNCHANGED <<modeltype, initialized, store, indexFile, saved>>
    /\ UNCHANGED <<pvars, svars>>

Next ==
    \/ VectorStore_new
    \/ create_store
    \/ extend_store
    \/ Save
    \/ Load
    \/ RemoveIndexFile
    \/ RemoveStoreFile

Spec == Init /\ [][Next]_vars


\* ============================================================ the loader
StoreIdle ==
    /\ modeltype = "openai"
    /\ initialized = FALSE
    /\ store = None
    /\ indexFile = None
    /\ storeFile = None
    /\ saved = None
    /\ last = Call("new", NoDatastore, 0, "none", None, FALSE, 0, 0, FALSE,
                 FALSE, 0)
    /\ ncalls = 0

\* FileType: the extensions the package knows.
FileType == {".txt", ".tex", ".md", ".docx", ".pdf", ".ipynb"}

\* The filetypes a DataLoader is constructed with: the default, and the
\* default extended with PDF.
FiletypeLists == { {".md"}, {".md", ".pdf"} }

\* str.lower on the suffixes of the files below.
lower(suffix) ==
    IF suffix = ".MD" THEN ".md"
    ELSE IF suffix = ".PDF" THEN ".pdf"
    ELSE suffix

\* A file: its path (stem and suffix) and what a parser extracts from it, None
\* when the file cannot be parsed.  A text has a length, and the pieces the
\* splitter cuts it into.
File(stem, suffix, content) ==
    [source |-> [stem |-> stem, suffix |-> suffix], content |-> content]

Text(id, pieces, len) == [id |-> id, pieces |-> pieces, len |-> len]

Files ==
    { File("note", ".md", Some(Text(1, 2, 5))),
      File("B", ".MD", Some(Text(1, 2, 5))),
      File("empty", ".md", Some(Text(2, 0, 0))),
      File("good", ".pdf", Some(Text(3, 1, 4))),
      File("bad", ".pdf", None),
      File("data", ".csv", Some(Text(4, 1, 3))) }

\* The files walk_dir yields for a folder, in the order it yields them.
RECURSIVE Walks(_)
Walks(n) ==
    IF n = 0 THEN { <<>> }
    ELSE LET shorter == Walks(n - 1)
         IN shorter \cup
            UNION { { Append(w, f) :
                        f \in Files \ { w[i] : i \in 1..Len(w) } } :
                    w \in shorter }

Paths ==
    { [kind |-> "missing", files |-> <<>>], [kind |-> "file", files |-> <<>>] }
    \cup { [kind |-> "dir", files |-> w] : w \in Walks(MaxFiles) }

\* ParserSettings.from_filetypes: the configured types of each parser.
from_filetypes(ftypes) ==
    [textfiles |-> ftypes \cap {".md", ".txt", ".tex"},
     wordfiles |-> ftypes \cap {".docx"},
     pdffiles |-> ftypes \cap {".pdf"},
     jupyterfiles |-> ftypes \cap {".ipynb"}]

Document(text, source) == [text |-> text, source |-> source]

\* The parsers return the outcome and the value returned: Some(document), or
\* None when the function returns without a value.
parse_text(file) ==
    IF file.content = None
    THEN [exc |-> "UnicodeDecodeError", document |-> None]
    ELSE [exc |-> "none",
          document |-> Some(Document(Get(file.content), file.source))]

parse_word(file) ==
    IF file.content = None
    THEN [exc |-> "PackageNotFoundError", document |-> None]
    ELSE [exc |-> "none",
          document |-> Some(Document(Get(file.content), file.source))]

parse_pdf(file) ==
    IF file.content = None
    THEN [exc |-> "none", document |-> None]
    ELSE [exc |-> "none",
          document |-> Some(Document(Get(file.content), file.source))]

parse_jupyter(file) ==
    IF file.content = None
    THEN [exc |-> "JSONDecodeError", document |-> None]
    ELSE [exc |-> "none",
          document |-> Some(Document(Get(file.content), file.source))]

Parser(settings, file, ftype) ==
    IF ftype \in settings.textfiles THEN parse_text(file)
    ELSE IF ftype \in settings.wordfiles THEN parse_word(file)
    ELSE IF ftype \in settings.pdffiles THEN parse_pdf(file)
    ELSE IF ftype \in settings.jupyterfiles THEN parse_jupyter(file)
    ELSE [exc |-> "ValueError", document |-> None]

\* The loop of load_files with the test on the text left out.
RECURSIVE load_loop_keeping_empty(_, _, _)
load_loop_keeping_empty(notepaths, ftypes, ds) ==
    IF notepaths = <<>>
    THEN [exc |-> "none", data |-> ds]
    ELSE LET source == Head(notepaths)
             file_extension == lower(source.source.suffix)
         IN IF file_extension \notin ftypes
            THEN load_loop_keeping_empty(Tail(notepaths), ftypes, ds)
            ELSE LET r == Parser(from_filetypes(ftypes), source, file_extension)
                 IN IF r.exc # "none"
                    THEN [exc |-> r.exc, data |-> ds]
                    ELSE IF r.document = None
                    THEN [exc |-> "AttributeError", data |-> ds]
                    ELSE load_loop_keeping_empty(Tail(notepaths), ftypes,
                                                 Append(ds, Get(r.document)))

\* The loop of load_files over the files walk_dir yields.  len(document.text)
\* raises AttributeError when the parser returned no document.
RECURSIVE load_loop(_, _, _)
load_loop(notepaths, ftypes, ds) ==
    IF notepaths = <<>>
    THEN [exc |-> "none", data |-> ds]
    ELSE LET source == Head(notepaths)
             file_extension == lower(source.source.suffix)
         IN IF file_extension \notin ftypes
            THEN load_loop(Tail(notepaths), ftypes, ds)
            ELSE LET r == Parser(from_filetypes(ftypes), source, file_extension)
                 IN IF r.exc # "none"
                    THEN [exc |-> r.exc, data |-> ds]
                    ELSE IF r.document = None
                    THEN [exc |-> "AttributeError", data |-> ds]
                    ELSE IF Get(r.document).text.len > 0
                    THEN load_loop(Tail(notepaths), ftypes,
                                   Append(ds, Get(r.document)))
                    ELSE load_loop(Tail(notepaths), ftypes, ds)

load_files(path, ftypes, ds) ==
    IF path.kind = "missing"
    THEN [exc |-> "FileNotFoundError", data |-> ds]
    ELSE IF path.kind # "dir"
    THEN [exc |-> "NotADirectoryError", data |-> ds]
    ELSE load_loop(path.files, ftypes, ds)

PipelineInit ==
    /\ filetypes \in FiletypeLists
    /\ data = <<>>
    /\ chunks = None
    /\ lastLoad = NoLoad
    /\ nloads = 0
    /\ StoreIdle
    /\ SettingsIdle

\* dataloader.load_files(path)
LoadFiles ==
    /\ nloads < MaxLoads
    /\ \E path \in Paths :
         LET r == load_files(path, filetypes, data)
         IN /\ data' = r.data
            /\ lastLoad' = [path |-> path, exc |-> r.exc, before |-> Len(data)]
    /\ nloads' = nloads + 1
    /\ UNCHANGED <<filetypes, chunks>>
    /\ UNCHANGED <<modeltype, initialized, store, indexFile, storeFile, saved,
                   last, ncalls, svars>>

\* chunk_datastore(dataloader.get_datastore()), the first step of create_store
\* and extend_store.
ChunkDatastore ==
    /\ chunks' = Some([datastore |-> data, chunked |-> chunk_datastore(data)])
    /\ UNCHANGED <<filetypes, data, lastLoad, nloads>>
    /\ UNCHANGED <<modeltype, initialized, store, indexFile, storeFile, saved,
                   last, ncalls, svars>>

PipelineNext ==
    \/ LoadFiles
    \/ ChunkDatastore

PipelineSpec == PipelineInit /\ [][PipelineNext]_vars

\* ========================================================== the settings
\* check_folder of one process, in two steps: cache.exists() and then
\* cache.mkdir(parents=True), which raises FileExistsError when the directory
\* exists.
SettingsInit ==
    /\ parentDir \in BOOLEAN
    /\ cacheDir \in BOOLEAN
    /\ cacheDir => parentDir
    /\ pc = [p \in Procs |-> "start"]
    /\ StoreIdle
    /\ PipelineIdle

Exists(p) ==
    /\ pc[p] = "start"
    /\ pc' = [pc EXCEPT ![p] = IF cacheDir THEN "done" ELSE "mkdir"]
    /\ UNCHANGED <<parentDir, cacheDir>>
    /\ UNCHANGED <<modeltype, initialized, store, indexFile, storeFile, saved,
                   last, ncalls, pvars>>

Mkdir(p) ==
    /\ pc[p] = "mkdir"
    /\ IF cacheDir
       THEN /\ pc' = [pc EXCEPT ![p] = "FileExistsError"]
            /\ UNCHANGED <<parentDir, cacheDir>>
       ELSE /\ pc' = [pc EXCEPT ![p] = "done"]
            /\ parentDir' = TRUE
            /\ cacheDir' = TRUE
    /\ UNCHANGED <<modeltype, initialized, store, indexFile, storeFile, saved,
                   last, ncalls, pvars>>

\* The user clears the cache directory.
RemoveCacheDir ==
    /\ cacheDir
    /\ cacheDir' = FALSE
    /\ UNCHANGED <<parentDir, pc>>
    /\ UNCHANGED <<modeltype, initialized, store, indexFile, storeFile, saved,
                   last, ncalls, pvars>>

SettingsNext ==
    \/ \E p \in Procs : Exists(p)
    \/ \E p \in Procs : Mkdir(p)
    \/ RemoveCacheDir

SettingsSpec == SettingsInit /\ [][SettingsNext]_vars


\* ============================================================ the claims
\* The exceptions load raises when a file it reads does not exist.
StoreNotFound == {"RuntimeError", "FileNotFoundError"}

HasIndex(st) == st # None /\ Get(st).index # None

\* C1: whenever the store holds an index, the number of vectors in the index,
\* the number of chunk texts and the number of metadata rows are equal; the
\* texts and the metadata rows are equal in number also while the index is
\* detached.
C1_RowCountsAgree ==
    /\ store # None => Len(Get(store).docs) = Len(Get(store).metadatas)
    /\ HasIndex(store) => Len(Get(Get(store).index)) = Len(Get(store).docs)

\* A create_store and an extend_store of more than one batch have succeeded.
C1_Witness ==
    /\ last.op = "extend" /\ last.exc = "none" /\ last.wasInit
    /\ last.rows0 > 0
    /\ HasIndex(store)
    /\ Len(Get(Get(store).index)) > last.rows0 + stepsize

\* C2: a create_store that succeeds on a manager that was not initialized
\* leaves exactly the chunks of the datastore in the store, each once and in
\* input order: the store a single from_texts call on all chunks builds.
C2_CreateEqualsSingleBatch ==
    (last.op = "create" /\ last.exc = "none" /\ ~last.wasInit) =>
        LET c == chunk_datastore(last.ds)
        IN /\ store # None
           /\ Get(store).docs = c.docs
           /\ Get(store).metadatas = c.metadatas
           /\ Get(store).index = Some(embed_documents(c.docs))
           /\ store = from_texts(c.docs, c.metadatas).store

\* A create_store of 250 chunks (three batches) has succeeded.
C2_Witness ==
    /\ last.op = "create" /\ last.exc = "none" /\ ~last.wasInit
    /\ Rows(store) = 2 * stepsize + 50

\* C3 (as claimed): create_store on an initialized manager raises and leaves
\* the store and the initialized flag as they were.
C3_CreateTwiceIsRejected ==
    [][(last'.op = "create" /\ initialized) =>
          (last'.exc # "none" /\ store' = store /\ initialized' = initialized)]_vars

\* C4 (as claimed): every save on an initialized manager succeeds, and the two
\* files then hold the store as it was in memory when that save was called.
C4_SaveAnyNumberOfTimes ==
    (last.op = "save" /\ last.wasInit) =>
        /\ last.exc = "none"
        /\ indexFile # None /\ storeFile # None
        /\ read_index(Get(indexFile)) = Get(Get(saved).index)
        /\ pickle_load(Get(storeFile)).docs = Get(saved).docs
        /\ pickle_load(Get(storeFile)).metadatas = Get(saved).metadatas

\* C5: an extend_store that succeeds on an initialized manager leaves the
\* rows that were there in place and puts the chunks of the new documents
\* after them, in texts, metadatas and index alike; and after every step
\* that changes the store, vector i of the index is the vector of text i.
C5_ExtendAppends ==
    [][/\ (store' # store /\ HasIndex(store')) =>
            Get(Get(store').index) = embed_documents(Get(store').docs)
       /\ (last'.op = "extend" /\ last'.exc = "none" /\ initialized) =>
            LET c == chunk_datastore(last'.ds)
                old == Get(store)
                new == Get(store')
            IN /\ new.docs = old.docs \o c.docs
               /\ new.metadatas = old.metadatas \o c.metadatas
               /\ old.index # None =>
                    /\ new.index # None
                    /\ Len(Get(new.index)) = Len(Get(old.index)) + Len(c.docs)
                    /\ SubSeq(Get(new.index), 1, Len(Get(old.index)))
                         = Get(old.index)
               /\ old.index = None => new.index = None]_vars

\* An extend_store of more than one batch has succeeded on a store with rows.
C5_Witness ==
    /\ last.op = "extend" /\ last.exc = "none" /\ last.wasInit
    /\ last.rows0 >= stepsize
    /\ HasIndex(store)
    /\ Rows(store) = last.rows0 + stepsize + 1

\* The chunks of the batches the call got through before embedding call k
\* failed.  A create_store on an initialized manager starts at stepsize.
CommittedBefore(call) ==
    LET c == chunk_datastore(call.ds)
        first == IF call.op = "create" /\ call.wasInit THEN stepsize ELSE 0
    IN Slice(c.docs, first, first + (call.fail - 1) * stepsize)

\* C6 (as claimed): when the provider fails embedding call k, the store holds
\* the rows it had plus exactly the chunks of the batches before k, and the
\* exception carries the count of chunks committed.
C6_FailureReportsCommitted ==
    (last.exc = "ProviderError") =>
        /\ Rows(store) = last.rows0 + Len(CommittedBefore(last))
        /\ \A i \in 1..Len(CommittedBefore(last)) :
              Get(store).docs[last.rows0 + i] = CommittedBefore(last)[i]
        /\ last.committed = Some(Len(CommittedBefore(last)))

\* C7 (as claimed): after a call aborted by the provider is submitted again
\* with the same documents and succeeds, the store holds the rows from before
\* the first attempt followed by every chunk of the documents exactly once.
C7_RetryDoesNotDuplicate ==
    (last.retry /\ last.exc = "none") =>
        LET c == chunk_datastore(last.ds)
        IN /\ Rows(store) = last.base + Len(c.docs)
           /\ SubSeq(Get(store).docs, last.base + 1, Rows(store)) = c.docs

\* C8: a load that succeeds binds the store that was in memory when save last
\* succeeded: same index, same texts, same metadatas, same order.
C8_LoadRestoresSaved ==
    (last.op = "load" /\ last.exc = "none") => (store = saved /\ initialized)

\* A fresh manager has loaded a saved store of three batches.
C8_Witness ==
    /\ last.op = "load" /\ last.exc = "none" /\ ~last.wasInit
    /\ HasIndex(store)
    /\ Len(Get(Get(store).index)) = 2 * stepsize + 50

\* C9: a load while the index file or the store file is missing raises, and
\* leaves self.store and self.initialized as they were.
C9_LoadMissingArtifact ==
    [][(last'.op = "load" /\ (indexFile = None \/ storeFile = None)) =>
          (/\ last'.exc \in StoreNotFound
           /\ store' = store
           /\ initialized' = initialized)]_vars

\* A load has failed with the index file present and the store file missing.
C9_Witness ==
    /\ last.op = "load" /\ last.exc \in StoreNotFound
    /\ indexFile # None /\ storeFile = None

\* C10: extend_store on a manager that is not initialized, with neither file
\* on disk, raises out of the implicit load, binds no store, leaves the
\* manager uninitialized and creates no file.
C10_ExtendWithoutStore ==
    [][(last'.op = "extend" /\ ~initialized
            /\ indexFile = None /\ storeFile = None) =>
          (/\ last'.exc \in StoreNotFound
           /\ store' = store /\ store' = None
           /\ ~initialized'
           /\ indexFile' = None /\ storeFile' = None)]_vars

\* extend_store with documents has failed on a manager that was never
\* created or loaded, with no file on disk.
C10_Witness ==
    /\ last.op = "extend" /\ last.exc \in StoreNotFound /\ ~last.wasInit
    /\ last.ds # <<>>
    /\ store = None /\ ~initialized
    /\ indexFile = None /\ storeFile = None

\* C11: extend_store on a manager that is not initialized, with both files on
\* disk, loads first and then appends: the manager ends initialized, with a
\* supported model type only the provider can make the call fail, and when
\* the call succeeds the store holds the rows of the files, in their order,
\* followed by the chunks of the new documents.
C11_ExtendLoadsThenAppends ==
    [][(last'.op = "extend" /\ ~initialized
            /\ indexFile # None /\ storeFile # None) =>
          LET c == chunk_datastore(last'.ds)
              disk == pickle_load(Get(storeFile))
              new == Get(store')
          IN /\ initialized'
             /\ modeltype \in ModelType =>
                  last'.exc \in {"none", "ProviderError"}
             /\ last'.exc = "none" =>
                  /\ new.docs = disk.docs \o c.docs
                  /\ new.metadatas = disk.metadatas \o c.metadatas
                  /\ new.index # None
                  /\ Get(new.index) = embed_documents(new.docs)
                  /\ SubSeq(Get(new.index), 1, Len(disk.docs))
                       = read_index(Get(indexFile))]_vars

\* A fresh manager has extended a saved store: rows from disk, then new ones.
C11_Witness ==
    /\ last.op = "extend" /\ last.exc = "none" /\ ~last.wasInit
    /\ last.rows0 > 0
    /\ Rows(store) > last.rows0
    /\ Rows(saved) = last.rows0

\* The exception save raises when self.store was never bound.
NotInitialized == {"AttributeError"}

C14_OnlySaveWrites ==
    [][(last'.op \in {"create", "extend"}) =>
          (indexFile' = indexFile /\ storeFile' = storeFile)]_vars

\* extend_store has added rows to a loaded store and the files still hold
\* the rows of the last save.
C14_Witness ==
    /\ last.op = "extend" /\ last.exc = "none"
    /\ indexFile # None /\ storeFile # None
    /\ Rows(store) > Len(pickle_load(Get(storeFile)).docs)
    /\ Rows(store) > Len(read_index(Get(indexFile)))

\* C19 (as claimed): after a save that succeeds the manager holds the store it
\* held before the call, index included.
C19_SaveLeavesStore ==
    (last.op = "save" /\ last.exc = "none") => (store = saved /\ HasIndex(store))

C18_AppendOnlyOnBoundIndex ==
    /\ (last.op = "create" /\ ~last.wasInit /\ last.exc = "none") =>
          last.inits = 1
    /\ (last.op = "extend") => last.inits = 0
    /\ (last.op \in {"create", "extend"}) => last.exc # "AttributeError"

\* A file load_files has to add: its extension is configured, it can be parsed
\* and its text is not empty.
Eligible(file) ==
    /\ lower(file.source.suffix) \in filetypes
    /\ file.content # None
    /\ Get(file.content).len > 0

\* C15: every document load_files adds to the datastore has non-empty text
\* and an extension among the loader's configured file types; a folder all of
\* whose files can be parsed or have another extension is loaded without an
\* error, the files with empty text or another extension adding no document.
C15_OnlyEligibleDocuments ==
    /\ \A i \in 1..Len(data) :
         /\ data[i].text.len > 0
         /\ lower(data[i].source.suffix) \in filetypes
    /\ (/\ lastLoad.path.kind = "dir"
        /\ \A i \in 1..Len(lastLoad.path.files) :
             LET f == lastLoad.path.files[i]
             IN lower(f.source.suffix) \notin filetypes \/ f.content # None)
       => /\ lastLoad.exc = "none"
          /\ Len(data) = lastLoad.before
                + Cardinality({ i \in 1..Len(lastLoad.path.files) :
                                  Eligible(lastLoad.path.files[i]) })

\* load_files returned after it dropped a file with empty text and a file
\* with another extension.
C15_Witness ==
    /\ lastLoad.path.kind = "dir"
    /\ lastLoad.exc = "none"
    /\ \E i, j \in 1..Len(lastLoad.path.files) :
         LET f == lastLoad.path.files[i]  g == lastLoad.path.files[j]
         IN /\ lower(f.source.suffix) \in filetypes
            /\ f.content # None
            /\ Get(f.content).len = 0
            /\ lower(g.source.suffix) \notin filetypes
    /\ Len(data) = 0

\* The number of chunks of the documents in front of document j.
RECURSIVE Offset(_, _)
Offset(ds, j) ==
    IF j <= 1 THEN 0 ELSE Offset(ds, j - 1) + ds[j - 1].text.pieces

\* C17: chunk_datastore returns two lists of the same length; the chunks of
\* document j stand behind the chunks of the documents in front of it, in the
\* order the splitter emitted them, and the metadata at each of their
\* positions names the source of document j.
C17_ChunksTrackDocuments ==
    chunks # None =>
      LET ds == Get(chunks).datastore
          c == Get(chunks).chunked
      IN /\ Len(c.docs) = Len(c.metadatas)
         /\ Len(c.docs) = Offset(ds, Len(ds) + 1)
         /\ \A j \in 1..Len(ds) :
              \A k \in 1..ds[j].text.pieces :
                /\ c.docs[Offset(ds, j) + k] = split_text(ds[j].text)[k]
                /\ c.metadatas[Offset(ds, j) + k] = [source |-> ds[j].source]

\* chunk_datastore ran on two documents from different sources, the first
\* with more than one chunk.
C17_Witness ==
    /\ chunks # None
    /\ Len(Get(chunks).datastore) = 2
    /\ Get(chunks).datastore[1].source # Get(chunks).datastore[2].source
    /\ Get(chunks).datastore[1].text.pieces > 1
    /\ Len(Get(chunks).chunked.docs) > 2

\* C20: a PDF that cannot be parsed does not abort load_files: the call on a
\* folder returns, and the datastore has grown by the documents of all the
\* eligible files of the folder, in the order of the folder.
C20_PdfFailureDoesNotAbort ==
    (/\ lastLoad.path.kind = "dir"
     /\ \A i \in 1..Len(lastLoad.path.files) :
          LET f == lastLoad.path.files[i]
          IN f.content = None => lower(f.source.suffix) = ".pdf")
    => /\ lastLoad.exc = "none"
       /\ LET added == SelectSeq(lastLoad.path.files, Eligible)
          IN /\ Len(data) = lastLoad.before + Len(added)
             /\ \A i \in 1..Len(added) :
                  data[lastLoad.before + i]
                    = Document(Get(added[i].content), added[i].source)

\* C16: constructing the settings never fails because the cache directory
\* exists already, whatever the other processes do between the existence
\* check and the create step.
C16_CacheDirCreationIsIdempotent ==
    \A p \in Procs : pc[p] # "FileExistsError"
====
